---- MODULE Spec2Model ----
(***************************************************************************)
(* Model of scripts/audit_config.py: a scan of a source tree for C#        *)
(* options classes (find_config_definitions), the read of the              *)
(* documentation file (get_documented_sections) and the gap report         *)
(* (main).  Text is a tuple of one-character strings, so that suffix and   *)
(* substring tests are computed and not assumed.  The process is run       *)
(* twice in succession on the same tree and documentation file.            *)
(***************************************************************************)
EXTENDS Integers, Sequences, FiniteSets, TLC

VARIABLES
    tree,           \* the .cs/.csx files below ROOT_DIR, in os.walk order
    doc,            \* SYSTEMCONFIGURATION.md on disk
    report,         \* config_audit_report.md on disk: Absent or its lines
    reportWritable, \* whether open(..., "w") of the report succeeds
    run,            \* 1 or 2: which invocation of the process
    pc,             \* position of the process in main()
    exit_status,    \* <<>> while running, then <<0>> or <<1>>
    walk,           \* the files os.walk yields in this run
    idx,            \* number of files of walk already visited
    definitions,    \* the dict of find_config_definitions, in key order
    diag,           \* file paths named by "Skipping ..." diagnostics
    doc_content,    \* value returned by get_documented_sections
    missing_items,  \* the gap list of main()
    buf,            \* text written to the report handle, not yet on disk
    written,        \* number of gap items already written to the handle
    reportBefore,   \* the report file as it was when this run started
    firstBefore,    \* the report file as it was before the first run
    firstMissing,   \* gap list of the first run
    firstReport     \* report file after the first run

vars == <<tree, doc, report, reportWritable, run, pc, exit_status, walk, idx,
          definitions, diag, doc_content, missing_items, buf, written,
          reportBefore, firstBefore, firstMissing, firstReport>>

env == <<tree, doc, reportWritable, firstBefore>>

(* ------------------------------ bounds --------------------------------- *)

MaxFiles == 3

(* ------------------------------ text ----------------------------------- *)

Range(s) == {s[i] : i \in 1..Len(s)}

\* A file on disk: missing, or the chunks of text it holds.
Absent == [exists |-> FALSE, lines |-> <<>>]
File(lines) == [exists |-> TRUE, lines |-> lines]

DOC_FILE == <<"S","Y","S","T","E","M","C","O","N","F","I","G","U","R","A","T","I","O","N",".","m","d">>

REPORT_FILE == <<"c","o","n","f","i","g","_","a","u","d","i","t","_","r","e","p","o","r","t",".","m","d">>

ROOT_DIR == <<".">>

CS_SUFFIX == <<".","c","s">>

EndsWithAnywhere(s, suffix) ==
    \E i \in 1..Len(s) : i + Len(suffix) - 1 <= Len(s)
                         /\ SubSeq(s, i, i + Len(suffix) - 1) = suffix

\* str.endswith
EndsWith(s, suffix) ==
    /\ Len(s) >= Len(suffix)
    /\ SubSeq(s, Len(s) - Len(suffix) + 1, Len(s)) = suffix

\* os.path.join(dirpath, filename)
PathJoin(dirpath, filename) == dirpath \o <<"/">> \o filename

\* str.__contains__: a left-to-right search for the first occurrence
RECURSIVE FindFrom(_, _, _)
FindFrom(text, pat, start) ==
    IF start + Len(pat) - 1 > Len(text) THEN FALSE
    ELSE IF SubSeq(text, start, start + Len(pat) - 1) = pat THEN TRUE
    ELSE FindFrom(text, pat, start + 1)

StrContainsPrefixOnly(text, pat) ==
    Len(pat) <= Len(text) /\ SubSeq(text, 1, Len(pat)) = pat

StrContains(text, pat) == FindFrom(text, pat, 1)

\* Python's `x in container` for the two kinds of value doc_content takes
PyIn(x, container) ==
    IF container.kind = "list"
    THEN \E i \in 1..Len(container.items) : container.items[i] = x
    ELSE StrContains(container.text, x)

(* --------------------------- the file system --------------------------- *)

Audio == <<"A","u">>
Net == <<"N">>

\* Section names are captured by "([^"]+)": never empty.
SectionNames == {Audio, Net}

\* What the two patterns find in a file's text, in order of occurrence.
Contents ==
    { [classes |-> <<>>, sections |-> <<>>],
      [classes |-> <<"AudioOptions">>, sections |-> <<>>],
      [classes |-> <<>>, sections |-> <<Audio>>],
      [classes |-> <<"AudioOptions">>, sections |-> <<Audio>>],
      [classes |-> <<"SoundOptions">>, sections |-> <<Audio>>],
      [classes |-> <<"NetOptions", "AudioOptions">>, sections |-> <<Net, Audio>>] }

BothContent == [classes |-> <<"AudioOptions">>, sections |-> <<Audio>>]
NoContent == [classes |-> <<>>, sections |-> <<>>]

CsName == <<"a",".","c","s">>
CsxName == <<"a",".","c","s","x">>

\* status: "ok", "open_error" (open() raises), "read_error" (f.read() raises,
\* which is where invalid UTF-8 is detected).  The text of a file that cannot
\* be read is never seen, and a file that is not .cs is never opened.
FileKinds ==
    {[filename |-> CsName, status |-> "ok", content |-> c] : c \in Contents}
    \cup {[filename |-> CsxName, status |-> "ok", content |-> BothContent]}
    \cup {[filename |-> CsName, status |-> s, content |-> NoContent] :
            s \in {"open_error", "read_error"}}

\* f"**{section}** (Class: `{details['class']}` in `{details['file']}`)"
\* (a backquote is written ' here)
FormatItem(e) ==
    <<"**">> \o e.section \o <<"** (Class: '", e.class, "' in '">>
    \o e.file \o <<"')">>

ReportHeader == <<"### Missing Configuration Sections in ">> \o DOC_FILE \o <<"\n\n">>

ReportIntro ==
    <<"The following configuration sections were found in the code but are missing from documentation:\n\n">>

\* f"- [ ] {item}\n"
ChecklistLine(item) == <<"- [ ] ">> \o item \o <<"\n">>

\* Each file of the tree lives in a directory of its own below ROOT_DIR.
DirPath(i) == PathJoin(ROOT_DIR, <<"d", ToString(i)>>)

Trees ==
    UNION {[1..n -> FileKinds] : n \in 0..MaxFiles}

DocTexts == { <<>>, <<"A">>, <<"a","u">>, <<"x","A","u","y">> }

Docs == {[kind |-> "absent", text |-> <<>>], [kind |-> "unreadable", text |-> <<>>]}
        \cup {[kind |-> "text", text |-> t] : t \in DocTexts}

\* A report left by an earlier run, when the tree had one undocumented section
OldReport ==
    File(<< ReportHeader, ReportIntro,
            ChecklistLine(FormatItem([section |-> Net, class |-> "NetOptions",
                                      file |-> PathJoin(DirPath(1), CsName)])) >>)

\* os.walk(ROOT_DIR) is top-down: the files of ROOT_DIR itself come first,
\* and the report file of an earlier run is one of them.
Walk ==
    (IF report = Absent THEN <<>>
     ELSE << [dirpath |-> ROOT_DIR, filename |-> REPORT_FILE,
              status |-> "ok", content |-> NoContent] >>)
    \o [i \in 1..Len(tree) |->
          [dirpath |-> DirPath(i), filename |-> tree[i].filename,
           status |-> tree[i].status, content |-> tree[i].content]]

FilePath(f) == PathJoin(f.dirpath, f.filename)

(* ------------------------------- Init ---------------------------------- *)

NoDoc == [kind |-> "unset"]

Init ==
    /\ tree \in Trees
    /\ doc \in Docs
    /\ \E r \in {<<Absent, TRUE>>, <<OldReport, TRUE>>, <<OldReport, FALSE>>} :
          /\ report = r[1]
          /\ reportWritable = r[2]
          /\ reportBefore = r[1]
          /\ firstBefore = r[1]
    /\ run = 1
    /\ pc = "start"
    /\ exit_status = <<>>
    /\ walk = <<>>
    /\ idx = 0
    /\ definitions = <<>>
    /\ diag = <<>>
    /\ doc_content = NoDoc
    /\ missing_items = <<>>
    /\ buf = <<>>
    /\ written = 0
    /\ firstMissing = <<>>
    /\ firstReport = Absent

(* ------------------------ find_config_definitions ---------------------- *)

\* re.search: the first match of the pattern, or None (the empty tuple)
Search(matches) == IF matches = <<>> THEN <<>> ELSE <<matches[1]>>

HasKey(d, k) == \E i \in 1..Len(d) : d[i].section = k

DictSetAppend(d, k, v) ==
    Append(d, [section |-> k, class |-> v.class, file |-> v.file])

DictSetKeepFirst(d, k, v) ==
    IF HasKey(d, k) THEN d
    ELSE Append(d, [section |-> k, class |-> v.class, file |-> v.file])

\* d[k] = v on a dict: a new key goes last, an old key keeps its place
DictSet(d, k, v) ==
    IF HasKey(d, k)
    THEN [i \in 1..Len(d) |->
            IF d[i].section = k
            THEN [section |-> k, class |-> v.class, file |-> v.file]
            ELSE d[i]]
    ELSE Append(d, [section |-> k, class |-> v.class, file |-> v.file])

BothMatchEither(class_match, section_match) ==
    class_match # <<>> \/ section_match # <<>>

\* `if class_match and section_match`
BothMatch(class_match, section_match) ==
    class_match # <<>> /\ section_match # <<>>

Current == walk[idx + 1]

\* print("Scanning codebase..."); the call of find_config_definitions
Start ==
    /\ pc = "start"
    /\ walk' = Walk
    /\ idx' = 0
    /\ definitions' = <<>>
    /\ pc' = "scan"
    /\ UNCHANGED <<env, report, run, exit_status, diag, doc_content,
                   missing_items, buf, written, reportBefore, firstMissing,
                   firstReport>>

\* a file whose name does not end with ".cs" is passed over
VisitOther ==
    /\ pc = "scan"
    /\ idx < Len(walk)
    /\ ~EndsWith(Current.filename, CS_SUFFIX)
    /\ idx' = idx + 1
    /\ UNCHANGED <<env, report, run, pc, exit_status, walk, definitions, diag,
                   doc_content, missing_items, buf, written, reportBefore,
                   firstMissing, firstReport>>

\* open(filepath) is outside the try: its exception leaves the function,
\* and main(), and the interpreter exits with status 1
VisitOpenError ==
    /\ pc = "scan"
    /\ idx < Len(walk)
    /\ EndsWith(Current.filename, CS_SUFFIX)
    /\ Current.status = "open_error"
    /\ pc' = "crashed"
    /\ exit_status' = <<1>>
    /\ UNCHANGED <<env, report, run, walk, idx, definitions, diag, doc_content,
                   missing_items, buf, written, reportBefore, firstMissing,
                   firstReport>>

\* f.read() raises inside the try: print("Skipping {filepath}: {e}")
VisitReadError ==
    /\ pc = "scan"
    /\ idx < Len(walk)
    /\ EndsWith(Current.filename, CS_SUFFIX)
    /\ Current.status = "read_error"
    /\ diag' = Append(diag, FilePath(Current))
    /\ idx' = idx + 1
    /\ UNCHANGED <<env, report, run, pc, exit_status, walk, definitions,
                   doc_content, missing_items, buf, written, reportBefore,
                   firstMissing, firstReport>>

\* the file is read and the two patterns are searched in its text
VisitReadable ==
    /\ pc = "scan"
    /\ idx < Len(walk)
    /\ EndsWith(Current.filename, CS_SUFFIX)
    /\ Current.status = "ok"
    /\ LET class_match == Search(Current.content.classes)
           section_match == Search(Current.content.sections)
       IN  IF BothMatch(class_match, section_match)
           THEN definitions' =
                  DictSet(definitions, section_match[1],
                          [class |-> class_match[1], file |-> FilePath(Current)])
           ELSE definitions' = definitions
    /\ idx' = idx + 1
    /\ UNCHANGED <<env, report, run, pc, exit_status, walk, diag, doc_content,
                   missing_items, buf, written, reportBefore, firstMissing,
                   firstReport>>

\* return definitions; print("Reading ...")
ScanReturn ==
    /\ pc = "scan"
    /\ idx = Len(walk)
    /\ pc' = "read_doc"
    /\ UNCHANGED <<env, report, run, exit_status, walk, idx, definitions, diag,
                   doc_content, missing_items, buf, written, reportBefore,
                   firstMissing, firstReport>>

(* ------------------------ get_documented_sections ---------------------- *)

\* [] when the file does not exist, else the text of the file
GetDocumentedSections(d) ==
    IF d.kind = "absent"
    THEN [kind |-> "list", items |-> <<>>]
    ELSE [kind |-> "str", text |-> d.text]

\* doc_content = get_documented_sections(DOC_FILE); missing_items = []
ReadDoc ==
    /\ pc = "read_doc"
    /\ doc.kind # "unreadable"
    /\ doc_content' = GetDocumentedSections(doc)
    /\ missing_items' = <<>>
    /\ pc' = "find_gaps"
    /\ UNCHANGED <<env, report, run, exit_status, walk, idx, definitions, diag,
                   buf, written, reportBefore, firstMissing, firstReport>>

\* the file exists but open() or f.read() raises: nothing catches it
ReadDocError ==
    /\ pc = "read_doc"
    /\ doc.kind = "unreadable"
    /\ pc' = "crashed"
    /\ exit_status' = <<1>>
    /\ UNCHANGED <<env, report, run, walk, idx, definitions, diag, doc_content,
                   missing_items, buf, written, reportBefore, firstMissing,
                   firstReport>>

(* -------------------------------- main --------------------------------- *)

IsGapInverted(section, content) == PyIn(section, content)

\* `if section not in doc_content`
IsGap(section, content) == ~PyIn(section, content)

\* the loop over code_configs.items(), in key order
RECURSIVE CollectGaps(_, _, _)
CollectGaps(configs, content, i) ==
    IF i > Len(configs) THEN <<>>
    ELSE (IF IsGap(configs[i].section, content)
          THEN <<FormatItem(configs[i])>> ELSE <<>>)
         \o CollectGaps(configs, content, i + 1)

FindGaps ==
    /\ pc = "find_gaps"
    /\ missing_items' = CollectGaps(definitions, doc_content, 1)
    /\ pc' = "report"
    /\ UNCHANGED <<env, report, run, exit_status, walk, idx, definitions, diag,
                   doc_content, buf, written, reportBefore, firstMissing,
                   firstReport>>

HasGapsAlways(items) == TRUE

\* `if missing_items`
HasGaps(items) == items # <<>>

\* else: print("All configuration sections appear to be documented.")
NoGaps ==
    /\ pc = "report"
    /\ ~HasGaps(missing_items)
    /\ pc' = "done"
    /\ exit_status' = <<0>>
    /\ UNCHANGED <<env, report, run, walk, idx, definitions, diag, doc_content,
                   missing_items, buf, written, reportBefore, firstMissing,
                   firstReport>>

OpenAppend(f) == IF f.exists THEN f ELSE File(<<>>)

\* open(path, "w"): the file is created, or cut to no content
OpenTruncate(f) == File(<<>>)

OpenReport ==
    /\ pc = "report"
    /\ HasGaps(missing_items)
    /\ reportWritable
    /\ report' = OpenTruncate(report)
    /\ buf' = <<>>
    /\ written' = 0
    /\ pc' = "write_header"
    /\ UNCHANGED <<env, run, exit_status, walk, idx, definitions, diag,
                   doc_content, missing_items, reportBefore, firstMissing,
                   firstReport>>

\* the open of the report raises (no permission): nothing catches it
OpenReportError ==
    /\ pc = "report"
    /\ HasGaps(missing_items)
    /\ ~reportWritable
    /\ pc' = "crashed"
    /\ exit_status' = <<1>>
    /\ UNCHANGED <<env, report, run, walk, idx, definitions, diag, doc_content,
                   missing_items, buf, written, reportBefore, firstMissing,
                   firstReport>>

\* report.write(...) adds to the handle's buffer; the reports here are far
\* below the buffer size, so nothing reaches the disk before the close
WriteHeader ==
    /\ pc = "write_header"
    /\ buf' = Append(buf, ReportHeader)
    /\ pc' = "write_intro"
    /\ UNCHANGED <<env, report, run, exit_status, walk, idx, definitions, diag,
                   doc_content, missing_items, written, reportBefore,
                   firstMissing, firstReport>>

WriteIntro ==
    /\ pc = "write_intro"
    /\ buf' = Append(buf, ReportIntro)
    /\ pc' = "write_items"
    /\ UNCHANGED <<env, report, run, exit_status, walk, idx, definitions, diag,
                   doc_content, missing_items, written, reportBefore,
                   firstMissing, firstReport>>

WriteItem ==
    /\ pc = "write_items"
    /\ written < Len(missing_items)
    /\ buf' = Append(buf, ChecklistLine(missing_items[written + 1]))
    /\ written' = written + 1
    /\ UNCHANGED <<env, report, run, pc, exit_status, walk, idx, definitions,
                   diag, doc_content, missing_items, reportBefore, firstMissing,
                   firstReport>>

CloseReportNoFlush ==
    /\ pc = "write_items"
    /\ written = Len(missing_items)
    /\ buf' = <<>>
    /\ pc' = "done"
    /\ exit_status' = <<0>>
    /\ UNCHANGED <<env, report, run, walk, idx, definitions, diag, doc_content,
                   missing_items, written, reportBefore, firstMissing,
                   firstReport>>

CloseReportExitOne ==
    /\ pc = "write_items"
    /\ written = Len(missing_items)
    /\ report' = File(report.lines \o buf)
    /\ buf' = <<>>
    /\ pc' = "done"
    /\ exit_status' = <<1>>
    /\ UNCHANGED <<env, run, walk, idx, definitions, diag, doc_content,
                   missing_items, written, reportBefore, firstMissing,
                   firstReport>>

\* leaving the with block closes the handle, which flushes the buffer;
\* main() returns and the interpreter exits with status 0
CloseReport ==
    /\ pc = "write_items"
    /\ written = Len(missing_items)
    /\ report' = File(report.lines \o buf)
    /\ buf' = <<>>
    /\ pc' = "done"
    /\ exit_status' = <<0>>
    /\ UNCHANGED <<env, run, walk, idx, definitions, diag, doc_content,
                   missing_items, written, reportBefore, firstMissing,
                   firstReport>>

(* ----------------------------- a second run ---------------------------- *)

\* The process is started again: the tree, the documentation file and the
\* report file are what the first run left; everything else starts afresh.
RunAgain ==
    /\ pc = "done"
    /\ run = 1
    /\ run' = 2
    /\ firstMissing' = missing_items
    /\ firstReport' = report
    /\ reportBefore' = report
    /\ pc' = "start"
    /\ exit_status' = <<>>
    /\ walk' = <<>>
    /\ idx' = 0
    /\ definitions' = <<>>
    /\ diag' = <<>>
    /\ doc_content' = NoDoc
    /\ missing_items' = <<>>
    /\ buf' = <<>>
    /\ written' = 0
    /\ UNCHANGED <<env, report>>

Next ==
    \/ Start
    \/ VisitOther
    \/ VisitOpenError
    \/ VisitReadError
    \/ VisitReadable
    \/ ScanReturn
    \/ ReadDoc
    \/ ReadDocError
    \/ FindGaps
    \/ NoGaps
    \/ OpenReport
    \/ OpenReportError
    \/ WriteHeader
    \/ WriteIntro
    \/ WriteItem
    \/ CloseReport
    \/ RunAgain

Spec == Init /\ [][Next]_vars

(* ------------------------------ properties ----------------------------- *)

\* s occurs in t at some offset, character by character
Occurs(s, t) ==
    \E o \in 0..(Len(t) - Len(s)) : \A j \in 1..Len(s) : t[o + j] = s[j]

\* a .cs file that could be read and in whose text both patterns match
Matches(f) ==
    /\ f.filename = CsName
    /\ f.status = "ok"
    /\ f.content.classes # <<>>
    /\ f.content.sections # <<>>

Captured(f) ==
    [section |-> f.content.sections[1], class |-> f.content.classes[1],
     file |-> f.dirpath \o <<"/">> \o f.filename]

EntriesFor(s) == {k \in 1..Len(definitions) : definitions[k].section = s}

\* find_config_definitions has returned its mapping in this run
ScanReturned ==
    \/ pc \in {"read_doc", "find_gaps", "report", "write_header",
               "write_intro", "write_items", "done"}
    \/ pc = "crashed" /\ idx = Len(walk)

\* the loop of main() over the mapping has ended in this run
GapsKnown ==
    pc \in {"report", "write_header", "write_intro", "write_items", "done"}

Writing == pc \in {"write_header", "write_intro", "write_items"}

\* the report main() writes for a gap list
CompleteReport(items) ==
    File(<<ReportHeader, ReportIntro>>
         \o [k \in 1..Len(items) |-> <<"- [ ] ">> \o items[k] \o <<"\n">>])

IsPrefix(a, b) == Len(a) <= Len(b) /\ a = SubSeq(b, 1, Len(a))

C2_EntryIsOfThatFile ==
    ScanReturned =>
        \A i \in 1..Len(walk) : Matches(walk[i]) =>
            /\ Cardinality(EntriesFor(Captured(walk[i]).section)) = 1
            /\ \A k \in EntriesFor(Captured(walk[i]).section) :
                  definitions[k] = Captured(walk[i])

\* C2 (amended): when the scan has returned, every .cs file in which both
\* patterns match has exactly one entry under its section name; the entry
\* holds the class name and path captured from that file unless a file
\* visited later captures the same section name.
C2_EntryUnlessLaterDuplicate ==
    ScanReturned =>
        \A i \in 1..Len(walk) : Matches(walk[i]) =>
            /\ Cardinality(EntriesFor(Captured(walk[i]).section)) = 1
            /\ (\A j \in (i + 1)..Len(walk) :
                    ~(Matches(walk[j])
                      /\ Captured(walk[j]).section = Captured(walk[i]).section))
               => \A k \in EntriesFor(Captured(walk[i]).section) :
                     definitions[k] = Captured(walk[i])

\* two files capture the same section name with different class names
C2_Witness ==
    /\ ScanReturned
    /\ \E i, j \in 1..Len(walk) :
          /\ i < j
          /\ Matches(walk[i]) /\ Matches(walk[j])
          /\ Captured(walk[i]).section = Captured(walk[j]).section
          /\ Captured(walk[i]).class # Captured(walk[j]).class
          /\ \E k \in 1..Len(definitions) : definitions[k] = Captured(walk[j])

\* C3: every entry of the mapping comes from a visited file whose name ends
\* with ".cs" and in whose text both patterns matched; a tree without such
\* a file yields the empty mapping.
C3_OnlyMatchingCsFiles ==
    /\ \A k \in 1..Len(definitions) :
          \E i \in 1..idx : Matches(walk[i]) /\ definitions[k] = Captured(walk[i])
    /\ (ScanReturned /\ \A i \in 1..Len(walk) : ~Matches(walk[i]))
          => definitions = <<>>

\* the tree holds a .csx file with both patterns, a .cs file with the class
\* pattern only and a .cs file with both: one entry results
C3_Witness ==
    /\ ScanReturned
    /\ \E i \in 1..Len(walk) :
          walk[i].filename = CsxName /\ walk[i].content.sections # <<>>
    /\ \E i \in 1..Len(walk) :
          /\ walk[i].filename = CsName /\ walk[i].status = "ok"
          /\ walk[i].content.classes # <<>> /\ walk[i].content.sections = <<>>
    /\ Len(definitions) = 1

\* a candidate .cs file whose open or read fails
Failing(f) == f.filename = CsName /\ f.status # "ok"

\* C4 (as stated): every candidate file whose open or read fails is skipped
\* with a diagnostic naming it, and the scan goes on to the end of the walk.
C4_EveryFailureIsSkipped ==
    /\ \A i \in 1..idx : Failing(walk[i]) =>
          (walk[i].dirpath \o <<"/">> \o walk[i].filename) \in Range(diag)
    /\ ~(pc = "crashed" /\ idx < Len(walk))

\* C5 (as stated): in every state the report file has the contents it had
\* before the run or holds the complete report of this run.
C5_NeverPartial ==
    \/ report = reportBefore
    \/ GapsKnown /\ report = CompleteReport(missing_items)

\* C5 (amended): outside the window between the open and the close of the
\* report the file has its prior contents or holds the complete report;
\* inside that window the file exists and holds a prefix of the report,
\* empty right after the open, so a termination there can leave a
\* truncated file.
C5_PartialOnlyWhileWriting ==
    IF Writing
    THEN /\ report.exists
         /\ IsPrefix(report.lines, CompleteReport(missing_items).lines)
         /\ pc = "write_header" => report.lines = <<>>
    ELSE \/ report = reportBefore
         \/ GapsKnown /\ report = CompleteReport(missing_items)

\* every line has been handed to the handle, the file on disk is still cut
C5_Witness ==
    /\ pc = "write_items"
    /\ written = Len(missing_items)
    /\ reportBefore = OldReport
    /\ report = File(<<>>)

\* C6: at the end of a run the report file is the report of the gap list
\* (header, explanatory line, one unchecked item per gap in gap-list order)
\* when the gap list is non-empty, and is exactly what it was before the
\* run, present or missing, when the gap list is empty.
C6_WrittenIffGaps ==
    pc = "done" =>
        IF missing_items # <<>>
        THEN /\ report = CompleteReport(missing_items)
             /\ Len(report.lines) = 2 + Len(missing_items)
        ELSE report = reportBefore

\* an earlier report is replaced by a report of two gaps
C6_Witness ==
    /\ pc = "done"
    /\ reportBefore = OldReport
    /\ Len(missing_items) = 2
    /\ report # OldReport
    /\ report.lines[3] = <<"- [ ] ">> \o missing_items[1] \o <<"\n">>
    /\ report.lines[4] = <<"- [ ] ">> \o missing_items[2] \o <<"\n">>

\* C7: the second of two runs on the same tree and documentation file ends
\* with the gap list and the report file of the first.
C7_Idempotent ==
    (run = 2 /\ pc = "done") =>
        /\ missing_items = firstMissing
        /\ report = firstReport

\* the first run created the report in the scanned root, the second run
\* walked over it, and two files declare the same section name
C7_Witness ==
    /\ run = 2 /\ pc = "done"
    /\ ~firstBefore.exists
    /\ firstReport.exists
    /\ walk[1].filename = REPORT_FILE
    /\ \E i, j \in 1..Len(walk) :
          /\ i < j /\ Matches(walk[i]) /\ Matches(walk[j])
          /\ Captured(walk[i]).section = Captured(walk[j]).section
          /\ Captured(walk[i]).class # Captured(walk[j]).class

\* C8: without a documentation file, what get_documented_sections returns
\* contains no section name, as the empty text does; every scanned
\* definition is a gap, in order; at the end the report holds one checklist
\* line per definition, and with no definition it is left as it was.
C8_MissingDocAllGaps ==
    (doc.kind = "absent" /\ GapsKnown) =>
        /\ \A s \in SectionNames : PyIn(s, doc_content) <=> Occurs(s, <<>>)
        /\ missing_items = [k \in 1..Len(definitions) |-> FormatItem(definitions[k])]
        /\ pc = "done" =>
              IF definitions = <<>>
              THEN report = reportBefore
              ELSE /\ report.exists
                   /\ Len(report.lines) = 2 + Len(definitions)
                   /\ \A k \in 1..Len(definitions) :
                         report.lines[2 + k] =
                             <<"- [ ] ">> \o FormatItem(definitions[k]) \o <<"\n">>

\* no documentation file, one definition: one gap, one checklist line
C8_Witness ==
    /\ doc.kind = "absent"
    /\ pc = "done"
    /\ Len(definitions) = 1
    /\ Len(missing_items) = 1
    /\ Len(report.lines) = 3

LastFor(s) ==
    CHOOSE i \in 1..idx :
        /\ Matches(walk[i]) /\ Captured(walk[i]).section = s
        /\ \A j \in (i + 1)..idx :
              ~(Matches(walk[j]) /\ Captured(walk[j]).section = s)

\* C10: at every point of the scan each section name captured so far has
\* exactly one entry, holding the class name and path of the last visited
\* file that captured it; diagnostics name only files whose read failed;
\* and a step that stores an entry leaves the entries under the other
\* section names as they were.
C10_LastWriteWins ==
    /\ [](\A s \in SectionNames :
            (\E i \in 1..idx : Matches(walk[i]) /\ Captured(walk[i]).section = s)
            => /\ Cardinality(EntriesFor(s)) = 1
               /\ \A k \in EntriesFor(s) : definitions[k] = Captured(walk[LastFor(s)]))
    /\ [](\A p \in Range(diag) :
            \E i \in 1..idx : walk[i].status = "read_error"
                              /\ p = walk[i].dirpath \o <<"/">> \o walk[i].filename)
    /\ [][(pc = "scan" /\ idx' = idx + 1) =>
            \A k \in 1..Len(definitions) :
                (~Matches(walk[idx + 1])
                 \/ Captured(walk[idx + 1]).section # definitions[k].section)
                => /\ k <= Len(definitions')
                   /\ definitions'[k] = definitions[k]]_vars

\* Net is stored first, then Audio twice: the Audio entry is the later
\* file's, the Net entry is untouched, nothing is printed
C10_Witness ==
    /\ ScanReturned
    /\ Len(definitions) = 2
    /\ definitions[1].section = Net
    /\ definitions[2].section = Audio
    /\ definitions[2].class = "SoundOptions"
    /\ \E i, j \in 1..Len(walk) :
          /\ i < j
          /\ Matches(walk[i]) /\ Captured(walk[i]).class = "AudioOptions"
          /\ Captured(walk[i]).section = Audio
          /\ definitions[2] = Captured(walk[j])
    /\ diag = <<>>

====
